---- MODULE Spec2Model ----
(***************************************************************************)
(* Model of the ink! contract DigitalCertificate (src/lib.rs): a registry  *)
(* of certificate tokens with one issuer, the messages mint, owner_of and  *)
(* burn, and the private helper add_token_to.  Every message runs to       *)
(* completion before the next one starts, so each message is one action.   *)
(***************************************************************************)
EXTENDS Integers, Sequences, FiniteSets, TLC

\* ---------------------------------------------------------------- bounds
\* TokenId is u32; the model uses the ids 0..MaxTokenId.
MaxTokenId == 1
\* AccountId is 32 bytes; the model uses the all-zero account and the
\* accounts 1..NumAccounts.
NumAccounts == 2
\* Vec<u8> arguments come in the versions 1..MaxVersion (see Metadata).
MaxVersion == 1

\* ---------------------------------------------------------------- types
TokenId == 0..MaxTokenId

\* AccountId::from([0x0; 32])
ZeroAccount == 0

AccountId == 0..NumAccounts

\* The Vec<u8> arguments the callers supply.  A byte string is a sequence of
\* bytes; the first byte tells the four kinds of string apart (as the texts
\* "qwerty.com", "23092030", "JohnDoe" and "antiersolutions" of the tests
\* differ), the second is the version.
Metadata ==
  {[token_uri |-> <<1, v>>, expiration_date |-> <<2, v>>,
    candidate_name |-> <<3, v>>] : v \in 1..MaxVersion}

Authority == {<<4, v>> : v \in 1..MaxVersion}

\* enum Error
Error ==
  {"NotOwner", "OnlyAdminCanIssue", "TokenExists", "NotAllowed",
   "OnlyAdminCanCheck", "TokenNotFound"}

\* Option<AccountId>
None == <<>>
Some(x) == <<x>>

\* Default::default() of Vec<u8> and of Mapping<TokenId, AccountId>
EmptyBytes == <<>>
EmptyMapping == [k \in {} |-> ZeroAccount]

\* struct Issue { to: Option<AccountId>, id: TokenId }
Issue(to, id) == [to |-> to, id |-> id]

\* ------------------------------------------------- Mapping<K, V> methods
contains(m, k) == k \in DOMAIN m

get(m, k) == IF k \in DOMAIN m THEN Some(m[k]) ELSE None

insert(m, k, v) == [x \in (DOMAIN m) \cup {k} |-> IF x = k THEN v ELSE m[x]]

\* take that removes every entry (a clear in place of the removal of one key).
take_clear(m, k) == [x \in {} |-> m[x]]

take(m, k) == [x \in (DOMAIN m) \ {k} |-> m[x]]

\* ---------------------------------------------------------------- state
VARIABLES
  issuer, certificate_authority, token_uri, token_owner,
  candidate_name, expiration_date,   \* the fields of DigitalCertificate
  call,      \* the last message: its name, caller, arguments and return value
  emitted,   \* the events the last message handed to emit_event
  pre,       \* the contract storage as it was when the last message started
  minted,    \* history: ids whose last successful mint/burn was a mint
  rt,        \* history: how far the last calls are into the sequence
             \* mint(k, o1), burn(k) by o1, mint(k, o2), and who o1 is
  constructed, \* history: the arguments new was called with
  minted_to,   \* history: for each id of minted, the token_owner argument of
               \* the mint that returned Ok for it
  last_ok      \* history, kept under SpecMetadata only: the token_uri,
               \* expiration_date and candidate_name arguments of the last
               \* mint that returned Ok

vars ==
  <<issuer, certificate_authority, token_uri, token_owner,
    candidate_name, expiration_date, call, emitted, pre, minted, rt,
    constructed, minted_to, last_ok>>

\* The contract storage as one value (Rust's self).
Self ==
  [issuer |-> issuer,
   certificate_authority |-> certificate_authority,
   token_uri |-> token_uri,
   token_owner |-> token_owner,
   candidate_name |-> candidate_name,
   expiration_date |-> expiration_date]

\* -------------------------------------------------------------- the code
\* new that leaves certificate_authority at its default, like the other
\* Vec<u8> fields.
new_default_authority(i, ca) ==
  [issuer |-> i,
   certificate_authority |-> EmptyBytes,
   token_uri |-> EmptyBytes,
   token_owner |-> EmptyMapping,
   candidate_name |-> EmptyBytes,
   expiration_date |-> EmptyBytes]

\* pub fn new(issuer, certificate_authority) -> Self
new(i, ca) ==
  [issuer |-> i,
   certificate_authority |-> ca,
   token_uri |-> EmptyBytes,
   token_owner |-> EmptyMapping,
   candidate_name |-> EmptyBytes,
   expiration_date |-> EmptyBytes]

\* add_token_to that reports success without the insert.
add_token_to_no_insert(self, to, id) ==
  IF contains(self.token_owner, id)
  THEN [self |-> self, result |-> "TokenExists"]
  ELSE IF to = ZeroAccount
  THEN [self |-> self, result |-> "NotAllowed"]
  ELSE [self |-> self, result |-> "Ok"]

\* add_token_to without the contains check: a live id is overwritten.
add_token_to_overwrite(self, to, id) ==
  IF to = ZeroAccount
  THEN [self |-> self, result |-> "NotAllowed"]
  ELSE [self |-> [self EXCEPT !.token_owner = insert(@, id, to)],
        result |-> "Ok"]

\* add_token_to with its two checks in the other order.
add_token_to_null_first(self, to, id) ==
  IF to = ZeroAccount
  THEN [self |-> self, result |-> "NotAllowed"]
  ELSE IF contains(self.token_owner, id)
  THEN [self |-> self, result |-> "TokenExists"]
  ELSE [self |-> [self EXCEPT !.token_owner = insert(@, id, to)],
        result |-> "Ok"]

\* add_token_to without the check of the all-zero account.
add_token_to_allow_null(self, to, id) ==
  IF contains(self.token_owner, id)
  THEN [self |-> self, result |-> "TokenExists"]
  ELSE [self |-> [self EXCEPT !.token_owner = insert(@, id, to)],
        result |-> "Ok"]

\* add_token_to that inserts before it checks the all-zero account.
add_token_to_insert_first(self, to, id) ==
  IF contains(self.token_owner, id)
  THEN [self |-> self, result |-> "TokenExists"]
  ELSE LET s == [self EXCEPT !.token_owner = insert(@, id, to)]
       IN IF to = ZeroAccount
          THEN [self |-> s, result |-> "NotAllowed"]
          ELSE [self |-> s, result |-> "Ok"]

\* add_token_to that rejects the all-zero account with the variant NotOwner.
add_token_to_wrong_variant(self, to, id) ==
  IF contains(self.token_owner, id)
  THEN [self |-> self, result |-> "TokenExists"]
  ELSE IF to = ZeroAccount
  THEN [self |-> self, result |-> "NotOwner"]
  ELSE [self |-> [self EXCEPT !.token_owner = insert(@, id, to)],
        result |-> "Ok"]

\* fn add_token_to(&mut self, to, id) -> Result<(), Error>
add_token_to(self, to, id) ==
  IF contains(self.token_owner, id)
  THEN [self |-> self, result |-> "TokenExists"]
  ELSE IF to = ZeroAccount
  THEN [self |-> self, result |-> "NotAllowed"]
  ELSE [self |-> [self EXCEPT !.token_owner = insert(@, id, to)],
        result |-> "Ok"]

\* mint without the comparison of the caller with the issuer.
mint_no_auth(self, caller, id, uri, owner, expiry, name) ==
  LET s1 == [self EXCEPT !.token_uri = uri,
                         !.expiration_date = expiry,
                         !.candidate_name = name]
      r == add_token_to(s1, owner, id)
  IN IF r.result # "Ok"
     THEN [self |-> r.self, result |-> r.result, events |-> <<>>]
     ELSE [self |-> r.self, result |-> "Ok",
           events |-> <<Issue(Some(owner), id)>>]

\* mint that writes the token_owner argument to the field issuer.
mint_issuer_slip(self, caller, id, uri, owner, expiry, name) ==
  IF caller # self.issuer
  THEN [self |-> self, result |-> "OnlyAdminCanIssue", events |-> <<>>]
  ELSE LET s1 == [self EXCEPT !.token_uri = uri,
                              !.expiration_date = expiry,
                              !.candidate_name = name,
                              !.issuer = owner]
           r == add_token_to(s1, owner, id)
       IN IF r.result # "Ok"
          THEN [self |-> r.self, result |-> r.result, events |-> <<>>]
          ELSE [self |-> r.self, result |-> "Ok",
                events |-> <<Issue(Some(owner), id)>>]

\* mint that emits Issue before add_token_to, so a failing mint emits too.
mint_emit_early(self, caller, id, uri, owner, expiry, name) ==
  IF caller # self.issuer
  THEN [self |-> self, result |-> "OnlyAdminCanIssue", events |-> <<>>]
  ELSE LET s1 == [self EXCEPT !.token_uri = uri,
                              !.expiration_date = expiry,
                              !.candidate_name = name]
           r == add_token_to(s1, owner, id)
       IN [self |-> r.self, result |-> r.result,
           events |-> <<Issue(Some(owner), id)>>]

\* mint that writes the three fields only after add_token_to returned Ok.
mint_atomic(self, caller, id, uri, owner, expiry, name) ==
  IF caller # self.issuer
  THEN [self |-> self, result |-> "OnlyAdminCanIssue", events |-> <<>>]
  ELSE LET r == add_token_to(self, owner, id)
       IN IF r.result # "Ok"
          THEN [self |-> r.self, result |-> r.result, events |-> <<>>]
          ELSE [self |-> [r.self EXCEPT !.token_uri = uri,
                                        !.expiration_date = expiry,
                                        !.candidate_name = name],
                result |-> "Ok",
                events |-> <<Issue(Some(owner), id)>>]

\* mint that writes the three fields before it compares the caller with the
\* issuer.
mint_write_first(self, caller, id, uri, owner, expiry, name) ==
  LET s1 == [self EXCEPT !.token_uri = uri,
                         !.expiration_date = expiry,
                         !.candidate_name = name]
  IN IF caller # self.issuer
     THEN [self |-> s1, result |-> "OnlyAdminCanIssue", events |-> <<>>]
     ELSE LET r == add_token_to(s1, owner, id)
          IN IF r.result # "Ok"
             THEN [self |-> r.self, result |-> r.result, events |-> <<>>]
             ELSE [self |-> r.self, result |-> "Ok",
                   events |-> <<Issue(Some(owner), id)>>]

\* pub fn mint(&mut self, id, token_uri, token_owner, expiration_date,
\*             candidate_name) -> Result<(), Error>
mint(self, caller, id, uri, owner, expiry, name) ==
  IF caller # self.issuer
  THEN [self |-> self, result |-> "OnlyAdminCanIssue", events |-> <<>>]
  ELSE LET s1 == [self EXCEPT !.token_uri = uri,
                              !.expiration_date = expiry,
                              !.candidate_name = name]
           r == add_token_to(s1, owner, id)
       IN IF r.result # "Ok"
          THEN [self |-> r.self, result |-> r.result, events |-> <<>>]
          ELSE [self |-> r.self, result |-> "Ok",
                events |-> <<Issue(Some(owner), id)>>]

\* owner_of that answers the default (all-zero) account for an absent id.
owner_of_default(self, id) ==
  IF contains(self.token_owner, id)
  THEN Some(self.token_owner[id]) ELSE Some(ZeroAccount)

\* pub fn owner_of(&self, id) -> Option<AccountId>
owner_of(self, id) == get(self.token_owner, id)

\* burn without the take.
burn_no_take(self, caller, id) ==
  LET owner == get(self.token_owner, id)
  IN IF owner = None
     THEN [self |-> self, result |-> "TokenNotFound"]
     ELSE IF owner[1] # caller
     THEN [self |-> self, result |-> "NotOwner"]
     ELSE [self |-> self, result |-> "Ok"]

\* burn without the comparison of the owner with the caller.
burn_no_owner_check(self, caller, id) ==
  LET owner == get(self.token_owner, id)
  IN IF owner = None
     THEN [self |-> self, result |-> "TokenNotFound"]
     ELSE [self |-> [self EXCEPT !.token_owner = take(@, id)],
           result |-> "Ok"]

\* burn that reads an absent id as owned by the default (all-zero) account
\* (unwrap_or_default in place of ok_or(Error::TokenNotFound)?).
burn_absent_default(self, caller, id) ==
  LET owner == IF contains(self.token_owner, id)
               THEN self.token_owner[id] ELSE ZeroAccount
  IN IF owner # caller
     THEN [self |-> self, result |-> "NotOwner"]
     ELSE [self |-> [self EXCEPT !.token_owner = take(@, id)],
           result |-> "Ok"]

\* burn that leaves the id as a key, owned by the all-zero account.
burn_tombstone(self, caller, id) ==
  LET owner == get(self.token_owner, id)
  IN IF owner = None
     THEN [self |-> self, result |-> "TokenNotFound"]
     ELSE IF owner[1] # caller
     THEN [self |-> self, result |-> "NotOwner"]
     ELSE [self |-> [self EXCEPT !.token_owner = insert(@, id, ZeroAccount)],
           result |-> "Ok"]

\* pub fn burn(&mut self, id) -> Result<(), Error>
burn(self, caller, id) ==
  LET owner == get(self.token_owner, id)
  IN IF owner = None
     THEN [self |-> self, result |-> "TokenNotFound"]
     ELSE IF owner[1] # caller
     THEN [self |-> self, result |-> "NotOwner"]
     ELSE [self |-> [self EXCEPT !.token_owner = take(@, id)],
           result |-> "Ok"]

\* --------------------------------------------------------------- history
\* The record of one message call.
Call(op, caller, id, uri, owner, expiry, name, result, ret) ==
  [op |-> op, caller |-> caller, id |-> id, token_uri |-> uri,
   token_owner |-> owner, expiration_date |-> expiry,
   candidate_name |-> name, result |-> result, ret |-> ret]

\* A mint that can open the sequence mint(k), burn(k), mint(k): called by the
\* issuer for a non-null owner while k is not a key of token_owner.
OpensReuse(c, p) ==
  /\ c.op = "mint"
  /\ c.caller = p.issuer
  /\ c.token_owner # ZeroAccount
  /\ c.id \notin DOMAIN p.token_owner

Reuse(phase, owner) == [phase |-> phase, owner |-> owner]

\* The three Vec<u8> fields that mint writes, as one value.
Fields(uri, expiry, name) ==
  [token_uri |-> uri, expiration_date |-> expiry, candidate_name |-> name]

\* ---------------------------------------------------------------- steps
StoreSelf(s) ==
  /\ issuer' = s.issuer
  /\ certificate_authority' = s.certificate_authority
  /\ token_uri' = s.token_uri
  /\ token_owner' = s.token_owner
  /\ candidate_name' = s.candidate_name
  /\ expiration_date' = s.expiration_date

Init ==
  \E i \in AccountId, ca \in Authority :
    /\ issuer = new(i, ca).issuer
    /\ certificate_authority = new(i, ca).certificate_authority
    /\ token_uri = new(i, ca).token_uri
    /\ token_owner = new(i, ca).token_owner
    /\ candidate_name = new(i, ca).candidate_name
    /\ expiration_date = new(i, ca).expiration_date
    /\ pre = new(i, ca)
    /\ call = Call("new", ZeroAccount, 0, EmptyBytes, ZeroAccount, EmptyBytes,
                   EmptyBytes, "Ok", None)
    /\ emitted = <<>>
    /\ minted = {}
    /\ rt = Reuse(0, ZeroAccount)
    /\ constructed = [issuer |-> i, certificate_authority |-> ca]
    /\ minted_to = EmptyMapping
    /\ last_ok = Fields(EmptyBytes, EmptyBytes, EmptyBytes)

\* mint called by caller with the arguments id, md and owner.
MintStep(caller, id, owner, md) ==
    LET r == mint(Self, caller, id, md.token_uri, owner, md.expiration_date,
                  md.candidate_name)
        c == Call("mint", caller, id, md.token_uri, owner,
                  md.expiration_date, md.candidate_name, r.result, None)
    IN /\ StoreSelf(r.self)
       /\ pre' = Self
       /\ call' = c
       /\ emitted' = r.events
       /\ minted' = IF r.result = "Ok" THEN minted \cup {id} ELSE minted
       /\ rt' = IF /\ rt.phase = 2
                   /\ call.id = id
                   /\ caller = issuer
                   /\ owner # ZeroAccount
                THEN Reuse(3, rt.owner)
                ELSE IF OpensReuse(c, Self)
                THEN Reuse(1, owner)
                ELSE Reuse(0, ZeroAccount)
       /\ constructed' = constructed
       /\ minted_to' = IF r.result = "Ok"
                       THEN insert(minted_to, id, owner) ELSE minted_to

\* owner_of called by caller with the argument id.
OwnerOfStep(caller, id) ==
    /\ StoreSelf(Self)
    /\ pre' = Self
    /\ call' = Call("owner_of", caller, id, EmptyBytes, ZeroAccount,
                    EmptyBytes, EmptyBytes, "Ok", owner_of(Self, id))
    /\ emitted' = <<>>
    /\ minted' = minted
    /\ rt' = Reuse(0, ZeroAccount)
    /\ UNCHANGED <<constructed, minted_to>>

\* burn called by caller with the argument id.
BurnStep(caller, id) ==
    LET r == burn(Self, caller, id)
    IN /\ StoreSelf(r.self)
       /\ pre' = Self
       /\ call' = Call("burn", caller, id, EmptyBytes, ZeroAccount,
                       EmptyBytes, EmptyBytes, r.result, None)
       /\ emitted' = <<>>
       /\ minted' = IF r.result = "Ok" THEN minted \ {id} ELSE minted
       /\ rt' = IF /\ OpensReuse(call, pre)
                   /\ call.id = id
                   /\ call.token_owner = caller
                THEN Reuse(2, caller)
                ELSE Reuse(0, ZeroAccount)
       /\ constructed' = constructed
       /\ minted_to' = IF r.result = "Ok" THEN take(minted_to, id)
                       ELSE minted_to

\* A call of mint by any caller with any arguments.
CallMint ==
  \E caller \in AccountId, id \in TokenId, owner \in AccountId,
     md \in Metadata :
    /\ MintStep(caller, id, owner, md)
    /\ last_ok' = last_ok

\* A call of owner_of by any caller.
CallOwnerOf ==
  \E caller \in AccountId, id \in TokenId :
    /\ OwnerOfStep(caller, id)
    /\ last_ok' = last_ok

\* A call of burn by any caller.
CallBurn ==
  \E caller \in AccountId, id \in TokenId :
    /\ BurnStep(caller, id)
    /\ last_ok' = last_ok

Next == CallMint \/ CallOwnerOf \/ CallBurn

Spec == Init /\ [][Next]_vars

\* The same calls, with the history of the arguments of the last mint that
\* returned Ok.
MintTracked ==
  \E caller \in AccountId, id \in TokenId, owner \in AccountId,
     md \in Metadata :
    /\ MintStep(caller, id, owner, md)
    /\ last_ok' = IF call'.result = "Ok"
                  THEN Fields(md.token_uri, md.expiration_date,
                              md.candidate_name)
                  ELSE last_ok

NextMetadata == MintTracked \/ CallOwnerOf \/ CallBurn

SpecMetadata == Init /\ [][NextMetadata]_vars

\* ---------------------------------------------------------------- claims
\* The last message was mint, called by the issuer.
MintByIssuer == call.op = "mint" /\ call.caller = pre.issuer

\* The id of the last message was a key of token_owner when it started.
WasLive == call.id \in DOMAIN pre.token_owner

\* C1: mint called by anyone but the issuer returns Err(OnlyAdminCanIssue)
\* and leaves token_owner as it was, whatever the arguments.
C1_MintByNonIssuer ==
  (call.op = "mint" /\ call.caller # pre.issuer)
    => /\ call.result = "OnlyAdminCanIssue"
       /\ token_owner = pre.token_owner

\* A non-issuer has called mint for a live id with the all-zero owner.
C1_Witness ==
  /\ call.op = "mint"
  /\ call.caller # pre.issuer
  /\ WasLive
  /\ call.token_owner = ZeroAccount
  /\ call.result = "OnlyAdminCanIssue"

\* C2: mint called by the issuer for an id that is not a key of token_owner
\* and an owner that is not the all-zero account returns Ok, and then
\* owner_of(id) = Some(owner).
C2_MintFreshId ==
  (MintByIssuer /\ ~WasLive /\ call.token_owner # ZeroAccount)
    => /\ call.result = "Ok"
       /\ owner_of(Self, call.id) = Some(call.token_owner)

\* The issuer has minted a fresh id while another id was live.
C2_Witness ==
  /\ MintByIssuer
  /\ ~WasLive
  /\ call.token_owner # ZeroAccount
  /\ pre.token_owner # EmptyMapping
  /\ call.result = "Ok"

\* C3: mint called by the issuer for an id that is a key of token_owner
\* returns Err(TokenExists) for every owner argument, and owner_of(id) is
\* still the previous owner.
C3_MintLiveId ==
  (MintByIssuer /\ WasLive)
    => /\ call.result = "TokenExists"
       /\ owner_of(Self, call.id) = Some(pre.token_owner[call.id])

\* The issuer has called mint for a live id with another, non-null owner.
C3_Witness ==
  /\ MintByIssuer
  /\ WasLive
  /\ call.token_owner # ZeroAccount
  /\ call.token_owner # pre.token_owner[call.id]
  /\ call.result = "TokenExists"

\* C4 as stated: mint called by the issuer with the all-zero account as owner
\* returns Err(NotAllowed) for every id, live or not.
C4_Original ==
  (MintByIssuer /\ call.token_owner = ZeroAccount)
    => call.result = "NotAllowed"

\* C4 as amended: mint called by the issuer with the all-zero account as owner
\* returns Err(NotAllowed) when the id is not live and Err(TokenExists) when
\* it is live.
C4_MintNullOwner ==
  (MintByIssuer /\ call.token_owner = ZeroAccount)
    => call.result = (IF WasLive THEN "TokenExists" ELSE "NotAllowed")

\* The issuer has called mint for a live id with the all-zero owner.
C4_Witness ==
  /\ MintByIssuer
  /\ call.token_owner = ZeroAccount
  /\ WasLive
  /\ call.result = "TokenExists"

\* C5: burn(id) called by the recorded owner of a live id returns Ok, and
\* then owner_of(id) = None; the owner may be the issuer.
C5_BurnByOwner ==
  (call.op = "burn" /\ WasLive /\ call.caller = pre.token_owner[call.id])
    => /\ call.result = "Ok"
       /\ owner_of(Self, call.id) = None

\* The issuer, owner of a live id, has burned it.
C5_Witness ==
  /\ call.op = "burn"
  /\ WasLive
  /\ call.caller = pre.token_owner[call.id]
  /\ call.caller = pre.issuer
  /\ call.result = "Ok"

\* C6: burn(id) of a live id called by anyone but its recorded owner returns
\* Err(NotOwner) and leaves token_owner as it was.
C6_BurnByNonOwner ==
  (call.op = "burn" /\ WasLive /\ call.caller # pre.token_owner[call.id])
    => /\ call.result = "NotOwner"
       /\ token_owner = pre.token_owner

\* The issuer has called burn for a live id it does not own.
C6_Witness ==
  /\ call.op = "burn"
  /\ WasLive
  /\ call.caller # pre.token_owner[call.id]
  /\ call.caller = pre.issuer
  /\ call.result = "NotOwner"

\* C7: burn(id) of an id that is not a key of token_owner returns
\* Err(TokenNotFound) for every caller and changes no field of the contract.
C7_BurnAbsentId ==
  (call.op = "burn" /\ ~WasLive)
    => /\ call.result = "TokenNotFound"
       /\ Self = pre

\* Someone who is not the issuer has called burn for an absent id while
\* another id was live.
C7_Witness ==
  /\ call.op = "burn"
  /\ ~WasLive
  /\ call.caller # pre.issuer
  /\ pre.token_owner # EmptyMapping
  /\ call.result = "TokenNotFound"

\* C8: no key of token_owner maps to the all-zero account.
C8_NoNullOwner ==
  \A k \in DOMAIN token_owner : token_owner[k] # ZeroAccount

\* The issuer has tried to mint a fresh id to the all-zero account while
\* another id was live.
C8_Witness ==
  /\ MintByIssuer
  /\ call.token_owner = ZeroAccount
  /\ ~WasLive
  /\ token_owner # EmptyMapping

\* C9: in the sequence mint(k, o1) by the issuer with k not live and o1 not
\* null, burn(k) by o1, mint(k, o2) by the issuer with o2 not null, every
\* call returns Ok; k is absent after the burn and owned by o2 at the end.
C9_IdReuse ==
  /\ rt.phase \in {1, 2, 3} => call.result = "Ok"
  /\ rt.phase = 1 => owner_of(Self, call.id) = Some(rt.owner)
  /\ rt.phase = 2 => owner_of(Self, call.id) = None
  /\ rt.phase = 3 => owner_of(Self, call.id) = Some(call.token_owner)

\* The sequence has been completed with a second owner other than the first.
C9_Witness ==
  /\ rt.phase = 3
  /\ call.token_owner # rt.owner
  /\ call.result = "Ok"

\* C10: an id is a key of token_owner only if a mint of it has returned Ok
\* and no burn of it has returned Ok since.
C10_LiveOnlyIfMinted ==
  \A k \in DOMAIN token_owner : k \in minted

\* An id has been burned while another id stays live.
C10_Witness ==
  /\ call.op = "burn"
  /\ call.result = "Ok"
  /\ call.id \notin minted
  /\ token_owner # EmptyMapping
\* C11: issuer and certificate_authority keep the values passed to new
\* across every mint, burn and owner_of, successful or failing.
C11_ConstructorFieldsKept ==
  /\ issuer = constructed.issuer
  /\ certificate_authority = constructed.certificate_authority

\* An owner who is not the issuer has burned the token the issuer minted.
C11_Witness ==
  /\ call.op = "burn"
  /\ call.result = "Ok"
  /\ call.caller # constructed.issuer
  /\ pre.issuer = constructed.issuer
\* C12: a call emits an event exactly when it is a mint that returns Ok; the
\* event is Issue { to: Some(token_owner argument), id: the minted id }, and
\* owner_of(id) is that owner when it is emitted.  Failed mints, every burn
\* and owner_of emit nothing.
C12_IssueEvents ==
  IF call.op = "mint" /\ call.result = "Ok"
  THEN /\ emitted = <<[to |-> Some(call.token_owner), id |-> call.id]>>
       /\ owner_of(Self, call.id) = Some(call.token_owner)
  ELSE emitted = <<>>

\* A mint has returned Ok and emitted one event, after an earlier mint.
C12_Witness ==
  /\ call.op = "mint"
  /\ call.result = "Ok"
  /\ Len(emitted) = 1
  /\ pre.token_owner # EmptyMapping
C14_InitialState ==
  call.op = "new"
    => /\ issuer = constructed.issuer
       /\ certificate_authority = constructed.certificate_authority
       /\ token_uri = EmptyBytes
       /\ expiration_date = EmptyBytes
       /\ candidate_name = EmptyBytes
       /\ \A k \in TokenId : owner_of(Self, k) = None

\* new has been called with an issuer that is not the all-zero account and a
\* certificate_authority that is not empty.
C14_Witness ==
  /\ call.op = "new"
  /\ constructed.issuer # ZeroAccount
  /\ constructed.certificate_authority # EmptyBytes
\* C15: owner_of(k), for every caller, returns Some(o) exactly when
\* token_owner maps k to o and None exactly when k is not a key, never an
\* error, and changes no field of the contract and emits no event.
C15_OwnerOfPureRead ==
  call.op = "owner_of"
    => /\ call.ret = (IF call.id \in DOMAIN pre.token_owner
                      THEN <<pre.token_owner[call.id]>> ELSE <<>>)
       /\ call.result \notin Error
       /\ Self = pre
       /\ emitted = <<>>

\* Someone who is neither the issuer nor the owner has read the owner of a
\* live id.
C15_Witness ==
  /\ call.op = "owner_of"
  /\ call.id \in DOMAIN token_owner
  /\ call.caller # issuer
  /\ call.caller # token_owner[call.id]
  /\ call.ret = <<token_owner[call.id]>>
\* C16: every call leaves token_owner as it was, or adds exactly the absent
\* id argument of a mint called by the issuer (owned by the token_owner
\* argument), or removes exactly the live id argument of a burn called by
\* its recorded owner; all other entries are unchanged, and the owner of a
\* live id is the token_owner argument of the mint that created it.
C16_OneEntryPerCall ==
  LET before == pre.token_owner
      kept(ids) == \A k \in ids : token_owner[k] = before[k]
  IN /\ \/ token_owner = before
        \/ /\ call.op = "mint"
           /\ call.caller = pre.issuer
           /\ call.id \notin DOMAIN before
           /\ DOMAIN token_owner = DOMAIN before \cup {call.id}
           /\ token_owner[call.id] = call.token_owner
           /\ kept(DOMAIN before)
        \/ /\ call.op = "burn"
           /\ call.id \in DOMAIN before
           /\ call.caller = before[call.id]
           /\ DOMAIN token_owner = DOMAIN before \ {call.id}
           /\ kept(DOMAIN token_owner)
     /\ DOMAIN token_owner \subseteq DOMAIN minted_to
     /\ \A k \in DOMAIN token_owner : token_owner[k] = minted_to[k]

\* An id has been burned while another id stays live with the owner it was
\* minted to.
C16_Witness ==
  /\ call.op = "burn"
  /\ call.result = "Ok"
  /\ \E k \in DOMAIN token_owner :
       k # call.id /\ token_owner[k] = pre.token_owner[k]
\* C17: token_uri, expiration_date and candidate_name equal the values
\* supplied to the most recent mint that returned Ok, and are empty if no
\* mint has returned Ok yet.
C17_FieldsOfLastMinted ==
  Fields(token_uri, expiration_date, candidate_name) = last_ok
\* C18: token_uri, expiration_date and candidate_name change only in a mint
\* called by the issuer; a mint rejected with OnlyAdminCanIssue, every burn
\* and every owner_of leave the three fields as they were.
C18_FieldsChangeOnlyByIssuerMint ==
  ~MintByIssuer
    => /\ token_uri = pre.token_uri
       /\ expiration_date = pre.expiration_date
       /\ candidate_name = pre.candidate_name

\* Someone who is not the issuer has called mint with values other than the
\* ones stored, and has been rejected.
C18_Witness ==
  /\ call.op = "mint"
  /\ call.caller # pre.issuer
  /\ call.result = "OnlyAdminCanIssue"
  /\ call.token_uri # pre.token_uri
  /\ call.expiration_date # pre.expiration_date
  /\ call.candidate_name # pre.candidate_name
\* C19: mint returns only Ok, OnlyAdminCanIssue, TokenExists or NotAllowed;
\* burn returns only Ok, TokenNotFound or NotOwner; no message returns
\* OnlyAdminCanCheck.
C19_ClosedResults ==
  /\ call.op = "mint"
       => call.result \in {"Ok", "OnlyAdminCanIssue", "TokenExists", "NotAllowed"}
  /\ call.op = "burn"
       => call.result \in {"Ok", "TokenNotFound", "NotOwner"}
  /\ call.result # "OnlyAdminCanCheck"

\* A mint by the issuer has failed in add_token_to, after an earlier mint by
\* the issuer and with no live token.
C19_Witness ==
  /\ MintByIssuer
  /\ call.result \in Error
  /\ pre.token_owner = EmptyMapping
  /\ pre.token_uri # EmptyBytes

====
